---- MODULE Spec2Model ----
(***************************************************************************)
(* The hostdevice network driver (drivers/hostdevice): the NetworkDriver   *)
(* with its SharedState (PodDeviceConfig, PreparedData) guarded by the     *)
(* mutex mu, the DRA entry points PrepareResourceClaims and                *)
(* UnprepareResourceClaims, the NRI handlers RunPodSandbox, StopPodSandbox *)
(* and RemovePodSandbox, and the calls they make into pkg/net              *)
(* (NsAttachNetdev, NsDetachNetdev).                                       *)
(*                                                                         *)
(* Every handler invocation is a task.  The NRI stub delivers lifecycle    *)
(* callbacks concurrently (NriTasks); the kubeletplugin helper is started  *)
(* with its default options, under which it serializes the prepare and    *)
(* unprepare calls, hence the single DRA task.                             *)
(***************************************************************************)
EXTENDS Naturals, Sequences, FiniteSets, TLC

\* ---------------------------------------------------------------- bounds
\* Longest list of granted devices in one allocation result.
MaxDevs == 2

\* Workload identities (types.UID) and concurrent callers.
UIDs == {"w1", "w2"}
NriTasks == {"n1", "n2"}
DraTasks == {"d1"}
Tasks == NriTasks \cup DraTasks

\* Host interfaces.  The allocator grants a device to one claim at a time, so
\* each workload draws its devices from names of its own.
DeviceName(w, i) == w \o "-eth" \o ToString(i)
Devices == {DeviceName(w, i) : w \in UIDs, i \in 1..MaxDevs}

\* ------------------------------------------------------------ vocabulary
NoTask == "none"
NoUID == ""
\* getNetworkNamespace returns "" when the pod lists no network namespace.
NoNetns == ""
\* The root (host) network namespace.
HostNs == "host"
\* The Go nil interface value, as read from a map that lacks the key.
Nil == "<nil>"

Netns(w) == "/run/netns/" \o w
Namespaces == {HostNs} \cup {Netns(w) : w \in UIDs}

EmptyMap == [x \in {} |-> x]
MapPut(m, k, v) == [x \in DOMAIN m \cup {k} |-> IF x = k THEN v ELSE m[x]]
MapDelete(m, k) == [x \in DOMAIN m \ {k} |-> m[x]]
\* A Go map read: the zero value when the key is absent.
MapGet(m, k, zero) == IF k \in DOMAIN m THEN m[k] ELSE zero

Range(s) == {s[i] : i \in 1..Len(s)}

\* The lists of up to n distinct elements of S.
RECURSIVE SeqsUpTo(_, _)
SeqsUpTo(S, n) ==
    IF n = 0 THEN {<<>>}
    ELSE LET shorter == SeqsUpTo(S, n - 1)
         IN shorter \cup UNION {{Append(s, x) : x \in S \ Range(s)} :
                                    s \in {q \in shorter : Len(q) = n - 1}}

\* claim.Status.Allocation of w's claim: nil, or the list Devices.Results of
\* the devices granted to w (none, or up to MaxDevs of w's devices).
AllocationResults(w) ==
    {[allocated |-> FALSE, results |-> <<>>]}
        \cup {[allocated |-> TRUE, results |-> [i \in 1..n |-> DeviceName(w, i)]] :
                 n \in 0..MaxDevs}

VARIABLES
    claimAlloc,         \* UID -> the allocation result its ResourceClaim carries
    PodDeviceConfig,    \* sharedState.PodDeviceConfig: UID -> list of device names
    PreparedData,       \* sharedState.PreparedData: UID -> prepared artifact
    mu,                 \* k.mu: the task holding it, or NoTask
    tasks,              \* per task: the handler it runs, its position and locals
    devNs,              \* kernel: the network namespace each interface is in
    prepared            \* history, per UID: "none"; "stored" once a prepare that
                        \* is still running has succeeded for it; "returned"
                        \* once that call has returned; "unprepared" after an
                        \* unprepare of the UID, "unprepared2" after a further
                        \* one with no prepare or remove in between; "none"
                        \* again with a RemovePodSandbox of the UID

vars == <<claimAlloc, PodDeviceConfig, PreparedData, mu, tasks, devNs, prepared>>

\* A task with no call in progress: the locals of an NRI handler (pod UID,
\* network namespace, the two values read, loop index, returned error) with
\* the history of its relocation calls, and the locals of a DRA call (claims,
\* loop index, results or errors, returned error).
IdleNri ==
    [kind |-> "idle", pc |-> "idle", uid |-> NoUID, ns |-> NoNetns,
     idx |-> 0, devices |-> <<>>, preparedData |-> Nil, err |-> FALSE,
     calls |-> <<>>, failed |-> 0, afterPrepare |-> FALSE]
IdleDra ==
    [kind |-> "idle", pc |-> "idle", claims |-> <<>>, idx |-> 0,
     results |-> EmptyMap, errors |-> {}, err |-> FALSE]
Idle(t) == IF t \in NriTasks THEN IdleNri ELSE IdleDra

\* NewNetworkDriver: both maps empty, the mutex free; every interface is in
\* the host namespace.
Init ==
    /\ claimAlloc \in {f \in [UIDs -> UNION {AllocationResults(w) : w \in UIDs}] :
                        \A w \in UIDs : f[w] \in AllocationResults(w)}
    /\ PodDeviceConfig = EmptyMap
    /\ PreparedData = EmptyMap
    /\ mu = NoTask
    /\ tasks = [t \in Tasks |-> Idle(t)]
    /\ devNs = [d \in Devices |-> HostNs]
    /\ prepared = [w \in UIDs |-> "none"]

\* ------------------------------------------------------- pure helpers
\* The pod's Linux namespaces as the NRI event carries them.
PodNamespaces(w) ==
    { <<[Type |-> "pid", Path |-> "/proc/1/ns/pid"]>>,
      <<[Type |-> "pid", Path |-> "/proc/1/ns/pid"],
        [Type |-> "network", Path |-> Netns(w)]>> }

\* getNetworkNamespace: the path of the first namespace of type "network".
RECURSIVE getNetworkNamespace(_)
getNetworkNamespace(nss) ==
    IF nss = <<>> THEN NoNetns
    ELSE IF Head(nss).Type = "network" THEN Head(nss).Path
    ELSE getNetworkNamespace(Tail(nss))

\* prepareDevice that checks for a missing allocation only.
prepareDevice_NilOnly(alloc) ==
    IF ~alloc.allocated
    THEN [err |-> TRUE, data |-> Nil]
    ELSE [err |-> FALSE,
          data |-> IF Len(alloc.results) = 0 THEN "" ELSE alloc.results[1]]

\* prepareDevice: an error when the claim has no allocation or no granted
\* device, otherwise the name of the first granted device.
prepareDevice(alloc) ==
    IF ~alloc.allocated \/ Len(alloc.results) = 0
    THEN [err |-> TRUE, data |-> Nil]
    ELSE [err |-> FALSE, data |-> alloc.results[1]]

\* unprepareDevice that reports a claim with nothing prepared as an error.
unprepareDevice_NotFound(w) == w \notin DOMAIN PreparedData

\* unprepareDevice: a no-op that returns nil.
unprepareDevice(w) == FALSE

\* The type assertion preparedData.(string).
IsString(preparedData) == preparedData # Nil

\* configureDeviceForPod without the type assertion.
configureDeviceForPod_NoAssert(device, networkNamespace, preparedData) ==
    [call |-> TRUE, hostIfName |-> preparedData, nsPath |-> networkNamespace]

\* configureDeviceForPod up to its call of NsAttachNetdev: an error without a
\* call when the prepared data is no string; otherwise the call's arguments
\* (hostIfName and the in-pod name are both the prepared host device name).
configureDeviceForPod(device, networkNamespace, preparedData) ==
    IF ~IsString(preparedData)
    THEN [call |-> FALSE, hostIfName |-> Nil, nsPath |-> networkNamespace]
    ELSE [call |-> TRUE, hostIfName |-> preparedData, nsPath |-> networkNamespace]

\* cleanupDeviceForPod up to its call of NsDetachNetdev(ns, name, name).
cleanupDeviceForPod(device, networkNamespace, preparedData) ==
    IF ~IsString(preparedData)
    THEN [call |-> FALSE, devName |-> Nil, nsPath |-> networkNamespace]
    ELSE [call |-> TRUE, devName |-> preparedData, nsPath |-> networkNamespace]

\* NsAttachNetdev, by outcome: the lookup of hostIfName in the host namespace
\* fails when it is not there; otherwise the kernel may reject a step before
\* the move (set down, namespace lookup, socket, modify link), after the move
\* (handle, lookup in the namespace, set up), or none.
NsAttachNetdev(hostIfName, containerNsPath, k) ==
    IF hostIfName \notin DOMAIN k \/ k[hostIfName] # HostNs
    THEN {[err |-> TRUE, devNs |-> k]}
    ELSE {[err |-> FALSE, devNs |-> [k EXCEPT ![hostIfName] = containerNsPath]],
          [err |-> TRUE, devNs |-> k],
          [err |-> TRUE, devNs |-> [k EXCEPT ![hostIfName] = containerNsPath]]}

\* NsDetachNetdev, by outcome: an error when the namespace path does not
\* resolve or devName is not in that namespace; otherwise the kernel may
\* reject a step before the move, after it (set up in the host), or none.
NsDetachNetdev(containerNsPath, devName, outName, k) ==
    IF \/ containerNsPath \notin Namespaces \ {HostNs}
       \/ devName \notin DOMAIN k
       \/ k[devName] # containerNsPath
    THEN {[err |-> TRUE, devNs |-> k]}
    ELSE {[err |-> FALSE, devNs |-> [k EXCEPT ![devName] = HostNs]],
          [err |-> TRUE, devNs |-> k],
          [err |-> TRUE, devNs |-> [k EXCEPT ![devName] = HostNs]]}

\* History bookkeeping: a delete of w's entry ends "prepare succeeded and
\* nothing deleted it since" for the RunPodSandbox calls that wait to read.
ForgetOrder(ts, w) ==
    [t \in Tasks |->
        IF t \in NriTasks /\ ts[t].kind = "Run" /\ ts[t].uid = w /\ ts[t].pc = "lock"
        THEN [ts[t] EXCEPT !.afterPrepare = FALSE]
        ELSE ts[t]]

\* ------------------------------------------------- allocation recording
\* The allocation event of the State Store (recordAllocation): stores the
\* granted devices of w's allocation under the lock.
RecordAllocation(w) ==
    /\ mu = NoTask
    /\ claimAlloc[w].allocated
    /\ w \notin DOMAIN PodDeviceConfig
    /\ PodDeviceConfig' = MapPut(PodDeviceConfig, w, claimAlloc[w].results)
    /\ UNCHANGED <<claimAlloc, PreparedData, mu, tasks, devNs, prepared>>

\* ------------------------------------------------ PrepareResourceClaims
\* History bookkeeping of one prepare iteration: a success marks w "stored"
\* unless an earlier call has it "returned"; the return of the call turns the
\* marks of its successes that no delete has cleared into "returned".
PreparedHistory(self, w, failed, last) ==
    LET marked == IF failed \/ prepared[w] = "returned" THEN prepared
                  ELSE [prepared EXCEPT ![w] = "stored"]
        ok == {u \in DOMAIN self.results : self.results[u] = "ok"}
                 \cup (IF failed THEN {} ELSE {w})
    IN IF ~last THEN marked
       ELSE [u \in UIDs |-> IF u \in ok /\ marked[u] = "stored"
                            THEN "returned" ELSE marked[u]]

\* PrepareClaim that reports success without writing PreparedData.
PrepareClaim_NoStore(t, self) ==
    LET w == self.claims[self.idx]
        r == prepareDevice(claimAlloc[w])
        last == self.idx = Len(self.claims)
    IN /\ r.err \/ mu = NoTask
       /\ tasks' = [tasks EXCEPT ![t] =
                       [self EXCEPT !.results = MapPut(self.results, w,
                                                       IF r.err THEN "err" ELSE "ok"),
                                    !.idx = self.idx + 1,
                                    !.pc = IF last THEN "done" ELSE "loop"]]
       /\ prepared' = PreparedHistory(self, w, r.err, last)
       /\ UNCHANGED <<claimAlloc, PodDeviceConfig, PreparedData, mu, devNs>>

\* PrepareClaim that returns the first prepare error as the error of the
\* whole batch instead of going on with the next claim.
PrepareClaim_AbortOnError(t, self) ==
    LET w == self.claims[self.idx]
        r == prepareDevice(claimAlloc[w])
        last == self.idx = Len(self.claims)
    IN /\ r.err \/ mu = NoTask
       /\ PreparedData' = IF r.err THEN PreparedData
                          ELSE MapPut(PreparedData, w, r.data)
       /\ tasks' = [tasks EXCEPT ![t] =
                       IF r.err
                       THEN [self EXCEPT !.err = TRUE, !.pc = "done"]
                       ELSE [self EXCEPT !.results = MapPut(self.results, w, "ok"),
                                         !.idx = self.idx + 1,
                                         !.pc = IF last THEN "done" ELSE "loop"]]
       /\ prepared' = PreparedHistory(self, w, r.err, last \/ r.err)
       /\ UNCHANGED <<claimAlloc, PodDeviceConfig, mu, devNs>>

\* One iteration of the loop over claims, by the call whose locals are self;
\* after the last claim the call returns (results, nil).  The store is the
\* critical section of k.mu.
PrepareClaim(t, self) ==
    LET w == self.claims[self.idx]
        r == prepareDevice(claimAlloc[w])
        last == self.idx = Len(self.claims)
    IN /\ r.err \/ mu = NoTask
       /\ PreparedData' = IF r.err THEN PreparedData
                          ELSE MapPut(PreparedData, w, r.data)
       /\ tasks' = [tasks EXCEPT ![t] =
                       [self EXCEPT !.results = MapPut(self.results, w,
                                                       IF r.err THEN "err" ELSE "ok"),
                                    !.idx = self.idx + 1,
                                    !.pc = IF last THEN "done" ELSE "loop"]]
       /\ prepared' = PreparedHistory(self, w, r.err, last)
       /\ UNCHANGED <<claimAlloc, PodDeviceConfig, mu, devNs>>

\* The call, up to the end of its first iteration.
PrepareResourceClaims(t, claims) ==
    /\ tasks[t].kind = "idle"
    /\ PrepareClaim(t, [IdleDra EXCEPT !.kind = "Prepare", !.pc = "loop",
                                    !.claims = claims, !.idx = 1])

PrepareNextClaim(t) ==
    /\ tasks[t].kind = "Prepare" /\ tasks[t].pc = "loop"
    /\ PrepareClaim(t, tasks[t])

\* ---------------------------------------------- UnprepareResourceClaims
\* One iteration: unprepareDevice, then the delete under k.mu; after the
\* last claim the call returns (errors, nil).
UnprepareClaim(t, self) ==
    LET w == self.claims[self.idx]
        last == self.idx = Len(self.claims)
        errors == IF unprepareDevice(w) THEN self.errors \cup {w} ELSE self.errors
    IN /\ mu = NoTask
       /\ PreparedData' = MapDelete(PreparedData, w)
       /\ tasks' = [ForgetOrder(tasks, w) EXCEPT ![t] =
                       [self EXCEPT !.errors = errors,
                                    !.idx = self.idx + 1,
                                    !.pc = IF last THEN "done" ELSE "loop"]]
       /\ prepared' = [prepared EXCEPT ![w] =
                           IF prepared[w] \in {"unprepared", "unprepared2"}
                           THEN "unprepared2" ELSE "unprepared"]
       /\ UNCHANGED <<claimAlloc, PodDeviceConfig, mu, devNs>>

UnprepareResourceClaims(t, claims) ==
    /\ tasks[t].kind = "idle"
    /\ UnprepareClaim(t, [IdleDra EXCEPT !.kind = "Unprepare", !.pc = "loop",
                                      !.claims = claims, !.idx = 1])

UnprepareNextClaim(t) ==
    /\ tasks[t].kind = "Unprepare" /\ tasks[t].pc = "loop"
    /\ UnprepareClaim(t, tasks[t])

\* --------------------------------------------------------- RunPodSandbox
\* RunCall without the check of the namespace: the handler goes on to the
\* lock with the empty namespace path.
RunCall_NoNamespaceCheck(t, w, nss) ==
    /\ tasks[t].kind = "idle"
    /\ tasks' = [tasks EXCEPT ![t] =
                    [IdleNri EXCEPT !.kind = "Run", !.uid = w,
                                    !.ns = getNetworkNamespace(nss),
                                    !.pc = "lock",
                                    !.afterPrepare = (prepared[w] = "returned")]]
    /\ UNCHANGED <<claimAlloc, PodDeviceConfig, PreparedData, mu, devNs, prepared>>

\* Entry: the namespace check; an error return before the lock when the pod
\* reports no network namespace.
RunCall(t, w, nss) ==
    LET networkNamespace == getNetworkNamespace(nss)
    IN /\ tasks[t].kind = "idle"
       /\ tasks' = [tasks EXCEPT ![t] =
                       [IdleNri EXCEPT !.kind = "Run", !.uid = w,
                                    !.ns = networkNamespace,
                                    !.pc = IF networkNamespace = NoNetns
                                           THEN "done" ELSE "lock",
                                    !.err = (networkNamespace = NoNetns),
                                    !.afterPrepare = (prepared[w] = "returned")]]
       /\ UNCHANGED <<claimAlloc, PodDeviceConfig, PreparedData, mu, devNs, prepared>>

\* The loop of RunPodSandbox from its head, at device self.idx, up to the
\* next point where the handler waits or returns: return nil after the last
\* device, return the error of configureDeviceForPod's type assertion, or
\* enter NsAttachNetdev.
RunDevices(self) ==
    LET c == configureDeviceForPod(self.devices[self.idx], self.ns, self.preparedData)
    IN IF self.idx > Len(self.devices)
       THEN [self EXCEPT !.pc = "done", !.err = FALSE]
       ELSE IF ~c.call
       THEN [self EXCEPT !.pc = "done", !.err = TRUE]
       ELSE [self EXCEPT !.pc = "attach", !.calls = Append(self.calls, c.hostIfName)]

\* RunLock without k.mu.Lock(): the handler reads and relocates unguarded.
RunLock_NoMutex(t) ==
    LET self == tasks[t]
        next == RunDevices([self EXCEPT
                    !.idx = 1,
                    !.devices = MapGet(PodDeviceConfig, self.uid, <<>>),
                    !.preparedData = MapGet(PreparedData, self.uid, Nil)])
    IN /\ self.kind = "Run" /\ self.pc = "lock"
       /\ tasks' = [tasks EXCEPT ![t] = next]
       /\ UNCHANGED <<claimAlloc, PodDeviceConfig, PreparedData, mu, devNs, prepared>>

\* k.mu.Lock(), the two map reads and the loop up to the first NsAttachNetdev
\* call; the deferred unlock runs when the handler returns.
RunLock(t) ==
    LET self == tasks[t]
        next == RunDevices([self EXCEPT
                    !.idx = 1,
                    !.devices = MapGet(PodDeviceConfig, self.uid, <<>>),
                    !.preparedData = MapGet(PreparedData, self.uid, Nil)])
    IN /\ self.kind = "Run" /\ self.pc = "lock"
       /\ mu = NoTask
       /\ tasks' = [tasks EXCEPT ![t] = next]
       /\ mu' = IF next.pc = "done" THEN NoTask ELSE t
       /\ UNCHANGED <<claimAlloc, PodDeviceConfig, PreparedData, devNs, prepared>>

\* RunPodSandbox that goes on with the next device after a failed attach.
RunAttachReturn_Continue(t) ==
    LET self == tasks[t]
    IN /\ self.kind = "Run" /\ self.pc = "attach"
       /\ \E out \in NsAttachNetdev(self.calls[Len(self.calls)], self.ns, devNs) :
             LET next == RunDevices([self EXCEPT !.idx = self.idx + 1])
             IN /\ devNs' = out.devNs
                /\ tasks' = [tasks EXCEPT ![t] = next]
                /\ mu' = IF next.pc = "done" THEN NoTask ELSE mu
       /\ UNCHANGED <<claimAlloc, PodDeviceConfig, PreparedData, prepared>>

\* NsAttachNetdev returns: on an error RunPodSandbox returns it at once,
\* otherwise the loop goes on with the next device.
RunAttachReturn(t) ==
    LET self == tasks[t]
    IN /\ self.kind = "Run" /\ self.pc = "attach"
       /\ \E out \in NsAttachNetdev(self.calls[Len(self.calls)], self.ns, devNs) :
             LET next == IF out.err
                         THEN [self EXCEPT !.pc = "done", !.err = TRUE]
                         ELSE RunDevices([self EXCEPT !.idx = self.idx + 1])
             IN /\ devNs' = out.devNs
                /\ tasks' = [tasks EXCEPT ![t] = next]
                /\ mu' = IF next.pc = "done" THEN NoTask ELSE mu
       /\ UNCHANGED <<claimAlloc, PodDeviceConfig, PreparedData, prepared>>

\* -------------------------------------------------------- StopPodSandbox
\* The loop of StopPodSandbox from its head, at device self.idx, up to the
\* next point where the handler waits or returns: return nil after the last
\* device, log the error of cleanupDeviceForPod's type assertion and go on
\* with the next device, or enter NsDetachNetdev.
RECURSIVE StopDevices(_)
StopDevices(self) ==
    LET c == cleanupDeviceForPod(self.devices[self.idx], self.ns, self.preparedData)
    IN IF self.idx > Len(self.devices)
       THEN [self EXCEPT !.pc = "done", !.err = FALSE]
       ELSE IF ~c.call
       THEN StopDevices([self EXCEPT !.failed = self.failed + 1,
                                     !.idx = self.idx + 1])
       ELSE [self EXCEPT !.pc = "detach", !.calls = Append(self.calls, c.devName)]

\* The handler from its entry: getNetworkNamespace, k.mu.Lock() (the call
\* waits until the mutex is free), the two map reads and the loop up to the
\* first NsDetachNetdev call; the deferred unlock runs at the return.
StopPodSandbox(t, w, nss) ==
    LET next == StopDevices([IdleNri EXCEPT
                    !.kind = "Stop", !.uid = w,
                    !.ns = getNetworkNamespace(nss),
                    !.idx = 1,
                    !.devices = MapGet(PodDeviceConfig, w, <<>>),
                    !.preparedData = MapGet(PreparedData, w, Nil)])
    IN /\ tasks[t].kind = "idle"
       /\ mu = NoTask
       /\ tasks' = [tasks EXCEPT ![t] = next]
       /\ mu' = IF next.pc = "done" THEN NoTask ELSE t
       /\ UNCHANGED <<claimAlloc, PodDeviceConfig, PreparedData, devNs, prepared>>

\* NsDetachNetdev returns: an error is logged, and the loop goes on.
StopDetachReturn(t) ==
    LET self == tasks[t]
        devName == self.calls[Len(self.calls)]
    IN /\ self.kind = "Stop" /\ self.pc = "detach"
       /\ \E out \in NsDetachNetdev(self.ns, devName, devName, devNs) :
             LET next == StopDevices([self EXCEPT
                             !.idx = self.idx + 1,
                             !.failed = IF out.err THEN self.failed + 1
                                        ELSE self.failed])
             IN /\ devNs' = out.devNs
                /\ tasks' = [tasks EXCEPT ![t] = next]
                /\ mu' = IF next.pc = "done" THEN NoTask ELSE mu
       /\ UNCHANGED <<claimAlloc, PodDeviceConfig, PreparedData, prepared>>

\* ------------------------------------------------------ RemovePodSandbox
\* RemovePodSandbox that forgets the delete of the prepared artifact.
RemovePodSandbox_KeepPrepared(t, w) ==
    /\ tasks[t].kind = "idle"
    /\ mu = NoTask
    /\ PodDeviceConfig' = MapDelete(PodDeviceConfig, w)
    /\ tasks' = [tasks EXCEPT ![t] =
                    [IdleNri EXCEPT !.kind = "Remove", !.uid = w,
                                 !.pc = "done", !.err = FALSE]]
    /\ UNCHANGED <<claimAlloc, PreparedData, mu, devNs, prepared>>

\* The whole handler: lock (the call waits until the mutex is free), the two
\* deletes, return nil with the deferred unlock.  As history, the record of
\* the call keeps the artifact its delete removed.
RemovePodSandbox(t, w) ==
    /\ tasks[t].kind = "idle"
    /\ mu = NoTask
    /\ PodDeviceConfig' = MapDelete(PodDeviceConfig, w)
    /\ PreparedData' = MapDelete(PreparedData, w)
    /\ tasks' = [ForgetOrder(tasks, w) EXCEPT ![t] =
                    [IdleNri EXCEPT !.kind = "Remove", !.uid = w,
                                 !.pc = "done", !.err = FALSE,
                                 !.preparedData = MapGet(PreparedData, w, Nil)]]
    /\ prepared' = [prepared EXCEPT ![w] = "none"]
    /\ UNCHANGED <<claimAlloc, mu, devNs>>

\* The caller takes the handler's result; the task is free for the next call.
Return(t) ==
    /\ tasks[t].pc = "done"
    /\ tasks' = [tasks EXCEPT ![t] = Idle(t)]
    /\ UNCHANGED <<claimAlloc, PodDeviceConfig, PreparedData, mu, devNs, prepared>>

\* The claims of one NodePrepareResources / NodeUnprepareResources request:
\* a non-empty list that names each claim once.
Batches == SeqsUpTo(UIDs, Cardinality(UIDs)) \ {<<>>}

\* A finished handler takes no further part, so its return is delivered
\* before any other step: this order loses no interleaving of the handlers.
NoReturnPending == \A t \in Tasks : tasks[t].pc # "done"

\* ------------------------------------------------------- runNRIPlugin
\* Program constants: the bound on consecutive restarts, and the run time
\* (in seconds) beyond which a subscription run counts as stable.
maxAttempts == 10
stabilityThreshold == 300

\* Most failed subscription runs followed in one behaviour.
MaxFailures == 12

\* time.Since(startTime) when the subscription ends: short, exactly the
\* threshold, and longer than the threshold.
RunTimes == {1, stabilityThreshold, stabilityThreshold + 1}

VARIABLES
    attempt,        \* runNRIPlugin's attempt counter
    nriPc,          \* where runNRIPlugin is: "loop" (the loop condition), "run"
                    \* (inside k.nriPlugin.Run), "select", "fatal" (klog.Fatalf),
                    \* "returned"
    ctxDone,        \* ctx has been cancelled (the shutdown signal)
    timerFired,     \* the channel of time.After(5s) of the current select is ready
    elapsed,        \* time.Since(startTime) of the last subscription run
    failures,       \* history: subscription runs that ended within the threshold
    sinceStable     \* history: such runs since the last run longer than it

restartVars == <<attempt, nriPc, ctxDone, timerFired, elapsed, failures, sinceStable>>

\* go k.runNRIPlugin(ctx): attempt := 0, at the loop condition.
RestartInit ==
    /\ attempt = 0
    /\ nriPc = "loop"
    /\ ctxDone = FALSE
    /\ timerFired = FALSE
    /\ elapsed = 0
    /\ failures = 0
    /\ sinceStable = 0

\* The loop condition holds: startTime is taken and k.nriPlugin.Run(ctx)
\* entered, whether or not attempt is below maxAttempts.
StartSubscription_Unbounded ==
    /\ nriPc = "loop"
    /\ nriPc' = "run"
    /\ UNCHANGED <<attempt, ctxDone, timerFired, elapsed, failures, sinceStable>>

\* The loop condition attempt < maxAttempts holds: startTime is taken and
\* k.nriPlugin.Run(ctx) entered.
StartSubscription ==
    /\ nriPc = "loop"
    /\ attempt < maxAttempts
    /\ nriPc' = "run"
    /\ UNCHANGED <<attempt, ctxDone, timerFired, elapsed, failures, sinceStable>>

\* The loop condition fails: klog.Fatalf ends the process.
FatalExit ==
    /\ nriPc = "loop"
    /\ ~(attempt < maxAttempts)
    /\ nriPc' = "fatal"
    /\ UNCHANGED <<attempt, ctxDone, timerFired, elapsed, failures, sinceStable>>

\* SubscriptionEnds that counts every run as a failed attempt.
SubscriptionEnds_NoReset(d) ==
    /\ nriPc = "run"
    /\ d > stabilityThreshold \/ failures < MaxFailures
    /\ elapsed' = d
    /\ attempt' = attempt + 1
    /\ failures' = IF d > stabilityThreshold THEN failures ELSE failures + 1
    /\ sinceStable' = IF d > stabilityThreshold THEN 0 ELSE sinceStable + 1
    /\ nriPc' = "select"
    /\ timerFired' = FALSE
    /\ UNCHANGED ctxDone

\* k.nriPlugin.Run returns after d seconds (with or without an error): the
\* counter is reset after a run longer than the threshold and incremented
\* otherwise; then the select is entered with a new 5s timer.
SubscriptionEnds(d) ==
    /\ nriPc = "run"
    /\ d > stabilityThreshold \/ failures < MaxFailures
    /\ elapsed' = d
    /\ attempt' = IF d > stabilityThreshold THEN 0 ELSE attempt + 1
    /\ failures' = IF d > stabilityThreshold THEN failures ELSE failures + 1
    /\ sinceStable' = IF d > stabilityThreshold THEN 0 ELSE sinceStable + 1
    /\ nriPc' = "select"
    /\ timerFired' = FALSE
    /\ UNCHANGED ctxDone

\* The 5s of time.After pass while runNRIPlugin waits in the select.
TimerFires ==
    /\ nriPc = "select"
    /\ ~timerFired
    /\ timerFired' = TRUE
    /\ UNCHANGED <<attempt, nriPc, ctxDone, elapsed, failures, sinceStable>>

\* The context is cancelled, at any moment of the loop.
Cancel ==
    /\ ~ctxDone
    /\ nriPc \notin {"fatal", "returned"}
    /\ ctxDone' = TRUE
    /\ UNCHANGED <<attempt, nriPc, timerFired, elapsed, failures, sinceStable>>

\* The select takes case <-ctx.Done(): return.
SelectDone ==
    /\ nriPc = "select"
    /\ ctxDone
    /\ nriPc' = "returned"
    /\ UNCHANGED <<attempt, ctxDone, timerFired, elapsed, failures, sinceStable>>

\* The select takes case <-time.After(5s): log, back to the loop condition.
\* With both channels ready the select takes either case.
SelectTimer ==
    /\ nriPc = "select"
    /\ timerFired
    /\ nriPc' = "loop"
    /\ UNCHANGED <<attempt, ctxDone, timerFired, elapsed, failures, sinceStable>>

\* The network driver at rest: no claim allocated, no handler called.
DriverAtRest == Init /\ \A w \in UIDs : ~claimAlloc[w].allocated

\* The kernel's interfaces and the calls of the relocations of pkg/net.
VARIABLES
    kernel,         \* per interface: namespace, name, alias, up, addresses
    netCall,        \* the last call of NsAttachNetdev / NsDetachNetdev: its
                    \* arguments, the interface it found, what it returned and
                    \* the step it returned from
    trail           \* history, per interface: the host name it had when up in
                    \* the host namespace before a successful attach, and
                    \* whether a successful detach has followed directly

netVars == <<kernel, netCall, trail>>

\* The lists of up to n elements of S, repeats included.
RECURSIVE ListsUpTo(_, _)
ListsUpTo(S, n) ==
    IF n = 0 THEN {<<>>}
    ELSE LET shorter == ListsUpTo(S, n - 1)
         IN shorter \cup UNION {{Append(q, x) : x \in S} :
                                    q \in {q \in shorter : Len(q) = n - 1}}

\* ------------------------------------------- publishResources: getDevices
\* Longest list of interfaces netlink.LinkList returns.
MaxLinks == 2

\* Interface names, as the sequences of their characters.
LinkNames ==
    {<<"e", "t", "h", "0">>, <<"l", "o">>, <<"v", "e", "t", "h", "1">>,
     <<"v", "e", "t">>, <<"d", "o", "c", "k", "e", "r", "0">>,
     <<"c", "n", "i", "0">>, <<"e", "c", "n", "i">>}

\* net.Flags of an interface: the bits getDevices looks at and one it does not.
FlagUp == "up"
FlagLoopback == "loopback"
FlagBroadcast == "broadcast"
LinkFlags == SUBSET {FlagUp, FlagLoopback, FlagBroadcast}

\* The interfaces of the host: attrs.Name and attrs.Flags.
Links == [Name : LinkNames, Flags : LinkFlags]

\* The lists netlink.LinkList can return: no two interfaces share a name.
LinkLists ==
    {ls \in ListsUpTo(Links, MaxLinks) :
        \A i, j \in 1..Len(ls) : i # j => ls[i].Name # ls[j].Name}

\* strings.HasPrefix(s, prefix).
HasPrefix(s, prefix) ==
    /\ Len(s) >= Len(prefix)
    /\ SubSeq(s, 1, Len(prefix)) = prefix

\* The name prefixes getDevices skips.
veth == <<"v", "e", "t", "h">>
docker == <<"d", "o", "c", "k", "e", "r">>
cni == <<"c", "n", "i">>

\* The resourceapi.Device getDevices builds for an interface.
Device(attrs) ==
    [Name |-> attrs.Name, Attributes |-> [interfaceName |-> attrs.Name]]

RECURSIVE getDevices_NoUpCheck(_, _, _)
\* getDevices that skips loopback and virtual interfaces only.
getDevices_NoUpCheck(links, i, devices) ==
    IF i > Len(links) THEN devices
    ELSE LET attrs == links[i]
         IN IF FlagLoopback \in attrs.Flags
            THEN getDevices_NoUpCheck(links, i + 1, devices)
            ELSE IF \/ HasPrefix(attrs.Name, veth)
                    \/ HasPrefix(attrs.Name, docker)
                    \/ HasPrefix(attrs.Name, cni)
            THEN getDevices_NoUpCheck(links, i + 1, devices)
            ELSE getDevices_NoUpCheck(links, i + 1, Append(devices, Device(attrs)))

RECURSIVE getDevices(_, _, _)
\* The loop of getDevices over links from index i, devices being the slice
\* built so far: an interface that is loopback or not up is skipped, so is one
\* whose name starts with veth, docker or cni; any other is appended.
getDevices(links, i, devices) ==
    IF i > Len(links) THEN devices
    ELSE LET attrs == links[i]
         IN IF FlagLoopback \in attrs.Flags \/ FlagUp \notin attrs.Flags
            THEN getDevices(links, i + 1, devices)
            ELSE IF \/ HasPrefix(attrs.Name, veth)
                    \/ HasPrefix(attrs.Name, docker)
                    \/ HasPrefix(attrs.Name, cni)
            THEN getDevices(links, i + 1, devices)
            ELSE getDevices(links, i + 1, Append(devices, Device(attrs)))

VARIABLES
    hostLinks,      \* what netlink.LinkList returns
    discovered      \* the return of getDevices: devices and err

pubVars == <<hostLinks, discovered>>

\* getDevices has not returned.
NotCalled == [returned |-> FALSE, devices |-> <<>>, err |-> FALSE]

PublishInit ==
    /\ hostLinks \in LinkLists
    /\ discovered = NotCalled

\* No interface enumerated, getDevices not called.
PublishAtRest ==
    /\ hostLinks = <<>>
    /\ discovered = NotCalled

\* getDevices returns the devices of the enumerated interfaces.
GetDevicesReturns ==
    /\ ~discovered.returned
    /\ discovered' = [returned |-> TRUE, devices |-> getDevices(hostLinks, 1, <<>>),
                      err |-> FALSE]
    /\ UNCHANGED hostLinks

\* netlink.LinkList fails: getDevices returns no devices and the error.
GetDevicesFails ==
    /\ ~discovered.returned
    /\ discovered' = [returned |-> TRUE, devices |-> <<>>, err |-> TRUE]
    /\ UNCHANGED hostLinks

\* ------------------------------------------- pkg/net: the two relocations
\* Longest address list of one NsAttachNetdev call, and the number of calls
\* of the two functions that are followed.
MaxAddrs == 2
MaxCalls == 2

\* Kernel interfaces by identity (ifindex), their host names, the name a
\* caller may ask for inside the namespace, and the namespace the calls name.
LinkIds == {"if1", "if2"}
IfNames == {"eth0", "eth1"}
DesiredName == "net1"
TargetNs == Netns("w1")

\* net.IPNet values of an address list.
IPNets == {[IP |-> "169.254.169.13", Mask |-> 24], [IP |-> "10.0.0.2", Mask |-> 16]}

AddressLists == ListsUpTo(IPNets, MaxAddrs)

\* The steps of NsAttachNetdev and of NsDetachNetdev that ask the kernel, in
\* program order ("addr" stands for the AddrAdd of each address in turn).
AttachSteps == <<"LinkByName", "LinkSetDown", "GetFromPath", "GetNetlinkSocketAt",
                 "Execute", "NewHandleAt", "nsLinkByName", "AddrAdd", "LinkSetUp">>
DetachSteps == <<"GetFromPath", "NewHandleAt", "nsLinkByName", "LinkSetDown",
                 "netnsGet", "GetNetlinkSocketAt", "Execute", "LinkByName",
                 "LinkSetUp">>

\* The steps that netlink serves with a dump or a request whose answer can
\* carry NLM_F_DUMP_INTR.
Interruptible == {"LinkByName", "nsLinkByName", "Execute"}

\* What the environment does to one call: nothing, or at one step (for
\* AddrAdd: at the address of index at) the kernel rejects the request
\* ("reject") or serves it and reports NLM_F_DUMP_INTR ("interrupted").
NoFault == [step |-> "none", kind |-> "none", at |-> 0]
Faults(steps) ==
    {NoFault}
        \cup {[step |-> steps[i], kind |-> "reject", at |-> 0] :
                 i \in {j \in 1..Len(steps) : steps[j] # "AddrAdd"}}
        \cup {[step |-> st, kind |-> "interrupted", at |-> 0] :
                 st \in Interruptible \cap Range(steps)}
        \cup {[step |-> "AddrAdd", kind |-> "reject", at |-> i] : i \in 1..MaxAddrs}

\* The error a step returns to the caller: nil, a kernel error, or
\* netlink.ErrDumpInterrupted.
StepErr(fault, step) ==
    IF fault.step = step
    THEN (IF fault.kind = "reject" THEN "error" ELSE "ErrDumpInterrupted")
    ELSE "nil"

NoLink == "none"
NoCall ==
    [op |-> "none", link |-> NoLink, nsPath |-> NoNetns, name |-> "", newName |-> "",
     addresses |-> <<>>, fault |-> NoFault, err |-> FALSE, step |-> "none",
     result |-> Nil, seq |-> 0, cause |-> "nil", failed |-> [at |-> 0, IP |-> ""],
     opened |-> {}, open |-> {}]
NoTrail == [stage |-> "none", name |-> "", ns |-> NoNetns]

\* Interfaces of the kernel: eth0, with or without an alias, and eth1, both up
\* in the host namespace.
NetInit ==
    /\ kernel \in
          {[l \in LinkIds |->
               IF l = "if1"
               THEN [ns |-> HostNs, name |-> "eth0", alias |-> a, up |-> TRUE,
                     addrs |-> <<>>]
               ELSE [ns |-> HostNs, name |-> "eth1", alias |-> "", up |-> TRUE,
                     addrs |-> <<>>]] :
              a \in {"", "lan0"}}
    /\ netCall = NoCall
    /\ trail = [l \in LinkIds |-> NoTrail]

\* The network driver's relocations at rest.
NetAtRest ==
    /\ kernel = [l \in LinkIds |->
                    [ns |-> HostNs, name |-> IF l = "if1" THEN "eth0" ELSE "eth1",
                     alias |-> "", up |-> TRUE, addrs |-> <<>>]]
    /\ netCall = NoCall
    /\ trail = [l \in LinkIds |-> NoTrail]

\* LinkByName that finds the interface of that name in any namespace.
LinkByName_AnyNs(k, ns, name) ==
    LET found == {l \in LinkIds : k[l].name = name}
    IN IF found = {} THEN NoLink ELSE CHOOSE l \in found : TRUE

\* netlink LinkByName in namespace ns: the interface of that name, or NoLink.
LinkByName(k, ns, name) ==
    LET found == {l \in LinkIds : k[l].ns = ns /\ k[l].name = name}
    IN IF found = {} THEN NoLink ELSE CHOOSE l \in found : TRUE

\* The kernel's RTM_NEWLINK with IFLA_IFNAME and IFLA_NET_NS_FD: it refuses a
\* name that another interface of the target namespace has; an interface that
\* changes namespace loses its addresses.
NameTaken(k, l, ns, name) ==
    \E m \in LinkIds \ {l} : k[m].ns = ns /\ k[m].name = name
MoveLink(k, l, ns, name) ==
    [k EXCEPT ![l].ns = ns, ![l].name = name,
              ![l].addrs = IF k[l].ns = ns THEN k[l].addrs ELSE <<>>]

\* LinkSetDown that leaves the interface as it is.
LinkSetDown_Noop(k, l) == k

\* netlink LinkSetDown and LinkSetUp of interface l.
LinkSetDown(k, l) == [k EXCEPT ![l].up = FALSE]
LinkSetUp(k, l) == [k EXCEPT ![l].up = TRUE]

RECURSIVE AddrLoop_Rollback(_, _, _, _, _, _)
\* The loop over addresses that removes the addresses it added when one fails.
AddrLoop_Rollback(k, l, addresses, i, ips, fault) ==
    IF i > Len(addresses) THEN [kernel |-> k, IPs |-> ips, failedAt |-> 0]
    ELSE IF \/ (fault.step = "AddrAdd" /\ fault.at = i)
            \/ addresses[i] \in Range(k[l].addrs)
    THEN [kernel |-> [k EXCEPT ![l].addrs = <<>>], IPs |-> ips, failedAt |-> i]
    ELSE AddrLoop_Rollback([k EXCEPT ![l].addrs = Append(k[l].addrs, addresses[i])],
                           l, addresses, i + 1, Append(ips, addresses[i].IP), fault)

\* The kernel refuses an address the interface already has.
RECURSIVE AddrLoop(_, _, _, _, _, _)
\* The loop over addresses from index i: the kernel state and the IPs
\* appended when it ends, and the index of the address whose AddrAdd failed
\* (0 when none did).
AddrLoop(k, l, addresses, i, ips, fault) ==
    IF i > Len(addresses) THEN [kernel |-> k, IPs |-> ips, failedAt |-> 0]
    ELSE IF \/ (fault.step = "AddrAdd" /\ fault.at = i)
            \/ addresses[i] \in Range(k[l].addrs)
    THEN [kernel |-> k, IPs |-> ips, failedAt |-> i]
    ELSE AddrLoop([k EXCEPT ![l].addrs = Append(k[l].addrs, addresses[i])],
                  l, addresses, i + 1, Append(ips, addresses[i].IP), fault)

\* No address named by the error.
NoAddr == [at |-> 0, IP |-> ""]

\* A return of one of the two functions: the error ("nil", "error" or
\* "ErrDumpInterrupted", wrapped or not), the result, the step returned from,
\* the kernel state left behind and the address the error message names.
Returned(cause, result, step, l, k, failed) ==
    [err |-> cause # "nil", cause |-> cause, result |-> result, step |-> step,
     link |-> l, kernel |-> k, failed |-> failed]

\* NsAttachNetdev that ignores the desired name and keeps the host name.
NsAttachNetdevRun_KeepName(hostIfName, containerNsPath, newName, addresses, k, fault) ==
    LET hostDev == LinkByName(k, HostNs, hostIfName)
        k1 == LinkSetDown(k, hostDev)
        ifName == k[hostDev].name
        k2 == MoveLink(k1, hostDev, containerNsPath, ifName)
        nsLink == LinkByName(k2, containerNsPath, ifName)
        loop == AddrLoop(k2, nsLink, addresses, 1, <<>>, fault)
        k3 == LinkSetUp(loop.kernel, nsLink)
    IN IF hostDev = NoLink \/ StepErr(fault, "LinkByName") = "error"
       THEN Returned("error", Nil, "LinkByName", hostDev, k, NoAddr)
       ELSE IF StepErr(fault, "LinkSetDown") # "nil"
       THEN Returned(StepErr(fault, "LinkSetDown"), Nil, "LinkSetDown", hostDev, k, NoAddr)
       ELSE IF StepErr(fault, "GetFromPath") # "nil"
       THEN Returned(StepErr(fault, "GetFromPath"), Nil, "GetFromPath", hostDev, k1, NoAddr)
       ELSE IF StepErr(fault, "GetNetlinkSocketAt") # "nil"
       THEN Returned(StepErr(fault, "GetNetlinkSocketAt"), Nil, "GetNetlinkSocketAt", hostDev, k1, NoAddr)
       ELSE IF \/ NameTaken(k1, hostDev, containerNsPath, ifName)
               \/ StepErr(fault, "Execute") = "error"
       THEN Returned("error", Nil, "Execute", hostDev, k1, NoAddr)
       ELSE IF StepErr(fault, "NewHandleAt") # "nil"
       THEN Returned(StepErr(fault, "NewHandleAt"), Nil, "NewHandleAt", hostDev, k2, NoAddr)
       ELSE IF nsLink = NoLink \/ StepErr(fault, "nsLinkByName") = "error"
       THEN Returned("error", Nil, "nsLinkByName", hostDev, k2, NoAddr)
       ELSE IF loop.failedAt # 0
       THEN Returned("error", Nil, "AddrAdd", hostDev, loop.kernel,
                     [at |-> loop.failedAt, IP |-> addresses[loop.failedAt].IP])
       ELSE IF StepErr(fault, "LinkSetUp") # "nil"
       THEN Returned(StepErr(fault, "LinkSetUp"), Nil, "LinkSetUp", hostDev, loop.kernel, NoAddr)
       ELSE Returned("nil", [InterfaceName |-> k3[nsLink].name, IPs |-> loop.IPs],
                     "return", hostDev, k3, NoAddr)

\* NsAttachNetdev(hostIfName, containerNsPath, LinkAttrs{Name: newName},
\* addresses) on kernel state k under fault: the lookups and the modify request
\* go on after ErrDumpInterrupted, every other error is returned at once.
NsAttachNetdevRun(hostIfName, containerNsPath, newName, addresses, k, fault) ==
    LET hostDev == LinkByName(k, HostNs, hostIfName)
        k1 == LinkSetDown(k, hostDev)
        ifName == IF newName # "" THEN newName ELSE k[hostDev].name
        k2 == MoveLink(k1, hostDev, containerNsPath, ifName)
        nsLink == LinkByName(k2, containerNsPath, ifName)
        loop == AddrLoop(k2, nsLink, addresses, 1, <<>>, fault)
        k3 == LinkSetUp(loop.kernel, nsLink)
    IN IF hostDev = NoLink \/ StepErr(fault, "LinkByName") = "error"
       THEN Returned("error", Nil, "LinkByName", hostDev, k, NoAddr)
       ELSE IF StepErr(fault, "LinkSetDown") # "nil"
       THEN Returned(StepErr(fault, "LinkSetDown"), Nil, "LinkSetDown", hostDev, k, NoAddr)
       ELSE IF StepErr(fault, "GetFromPath") # "nil"
       THEN Returned(StepErr(fault, "GetFromPath"), Nil, "GetFromPath", hostDev, k1, NoAddr)
       ELSE IF StepErr(fault, "GetNetlinkSocketAt") # "nil"
       THEN Returned(StepErr(fault, "GetNetlinkSocketAt"), Nil, "GetNetlinkSocketAt", hostDev, k1, NoAddr)
       ELSE IF \/ NameTaken(k1, hostDev, containerNsPath, ifName)
               \/ StepErr(fault, "Execute") = "error"
       THEN Returned("error", Nil, "Execute", hostDev, k1, NoAddr)
       ELSE IF StepErr(fault, "NewHandleAt") # "nil"
       THEN Returned(StepErr(fault, "NewHandleAt"), Nil, "NewHandleAt", hostDev, k2, NoAddr)
       ELSE IF nsLink = NoLink \/ StepErr(fault, "nsLinkByName") = "error"
       THEN Returned("error", Nil, "nsLinkByName", hostDev, k2, NoAddr)
       ELSE IF loop.failedAt # 0
       THEN Returned("error", Nil, "AddrAdd", hostDev, loop.kernel,
                     [at |-> loop.failedAt, IP |-> addresses[loop.failedAt].IP])
       ELSE IF StepErr(fault, "LinkSetUp") # "nil"
       THEN Returned(StepErr(fault, "LinkSetUp"), Nil, "LinkSetUp", hostDev, loop.kernel, NoAddr)
       ELSE Returned("nil", [InterfaceName |-> k3[nsLink].name, IPs |-> loop.IPs],
                     "return", hostDev, k3, NoAddr)

\* NsDetachNetdev(containerNsPath, devName, outName) on kernel state k under
\* fault: only the last lookup goes on after ErrDumpInterrupted.  The name
\* sent with the move is outName when it is not empty, otherwise the alias
\* when the interface has one, otherwise the name it has.
NsDetachNetdevRun(containerNsPath, devName, outName, k, fault) ==
    LET nsLink == LinkByName(k, containerNsPath, devName)
        k1 == LinkSetDown(k, nsLink)
        attrsName == IF k[nsLink].alias # "" THEN k[nsLink].alias ELSE k[nsLink].name
        ifName == IF outName # "" THEN outName ELSE attrsName
        k2 == MoveLink(k1, nsLink, HostNs, ifName)
        hostDev == LinkByName(k2, HostNs, ifName)
        k3 == LinkSetUp(k2, hostDev)
    IN IF StepErr(fault, "GetFromPath") # "nil"
       THEN Returned(StepErr(fault, "GetFromPath"), Nil, "GetFromPath", NoLink, k, NoAddr)
       ELSE IF StepErr(fault, "NewHandleAt") # "nil"
       THEN Returned(StepErr(fault, "NewHandleAt"), Nil, "NewHandleAt", NoLink, k, NoAddr)
       ELSE IF nsLink = NoLink \/ StepErr(fault, "nsLinkByName") # "nil"
       THEN Returned(IF nsLink = NoLink THEN "error" ELSE StepErr(fault, "nsLinkByName"),
                     Nil, "nsLinkByName", nsLink, k, NoAddr)
       ELSE IF StepErr(fault, "LinkSetDown") # "nil"
       THEN Returned(StepErr(fault, "LinkSetDown"), Nil, "LinkSetDown", nsLink, k, NoAddr)
       ELSE IF StepErr(fault, "netnsGet") # "nil"
       THEN Returned(StepErr(fault, "netnsGet"), Nil, "netnsGet", nsLink, k1, NoAddr)
       ELSE IF StepErr(fault, "GetNetlinkSocketAt") # "nil"
       THEN Returned(StepErr(fault, "GetNetlinkSocketAt"), Nil, "GetNetlinkSocketAt", nsLink, k1, NoAddr)
       ELSE IF \/ NameTaken(k1, nsLink, HostNs, ifName)
               \/ StepErr(fault, "Execute") = "error"
       THEN Returned("error", Nil, "Execute", nsLink, k1, NoAddr)
       ELSE IF StepErr(fault, "Execute") = "ErrDumpInterrupted"
       THEN Returned("ErrDumpInterrupted", Nil, "Execute", nsLink, k2, NoAddr)
       ELSE IF hostDev = NoLink \/ StepErr(fault, "LinkByName") = "error"
       THEN Returned("error", Nil, "LinkByName", nsLink, k2, NoAddr)
       ELSE IF StepErr(fault, "LinkSetUp") # "nil"
       THEN Returned(StepErr(fault, "LinkSetUp"), Nil, "LinkSetUp", nsLink, k2, NoAddr)
       ELSE Returned("nil", Nil, "return", nsLink, k3, NoAddr)

\* The handles each function opens, by the step that opens them: the
\* namespace handle, the netlink socket and the namespace-scoped netlink
\* handle; for detach also the handle of the current namespace.
AttachOpens ==
    {<<"GetFromPath", "containerNs">>, <<"GetNetlinkSocketAt", "s">>,
     <<"NewHandleAt", "nhNs">>}
DetachOpens ==
    {<<"GetFromPath", "containerNs">>, <<"NewHandleAt", "nhNs">>,
     <<"netnsGet", "rootNs">>, <<"GetNetlinkSocketAt", "s">>}

\* NsDetachNetdev without the deferred rootNs.Close().
DetachDeferred_NoRootNs == {"containerNs", "nhNs", "s"}

\* The handles whose Close() each function defers once they are open.
AttachDeferred == {"containerNs", "s", "nhNs"}
DetachDeferred == {"containerNs", "nhNs", "rootNs", "s"}

\* Position of a step in the program order; the final return comes last.
StepIndex(steps, step) ==
    IF step \in Range(steps)
    THEN CHOOSE i \in 1..Len(steps) : steps[i] = step
    ELSE Len(steps) + 1

\* The handles open when the function returns from step: those of the opening
\* steps that came before it and succeeded.
Opened(steps, opens, step) ==
    {o[2] : o \in {o \in opens : StepIndex(steps, o[1]) < StepIndex(steps, step)}}

\* History bookkeeping of one call on interface l: a successful attach of an
\* interface that was up in the host namespace starts its trail, a successful
\* detach right after it completes the trail, any other call on l ends it.
TrailAfter(op, l, r, k) ==
    IF l = NoLink THEN trail
    ELSE [trail EXCEPT ![l] =
             IF op = "attach" /\ ~r.err /\ k[l].up
             THEN [stage |-> "attached", name |-> k[l].name, ns |-> r.kernel[l].ns]
             ELSE IF op = "detach" /\ ~r.err /\ trail[l].stage = "attached"
             THEN [trail[l] EXCEPT !.stage = "returned"]
             ELSE NoTrail]

\* One call of NsAttachNetdev.
AttachCall(hostIfName, containerNsPath, newName, addresses, fault) ==
    LET r == NsAttachNetdevRun(hostIfName, containerNsPath, newName, addresses,
                               kernel, fault)
    IN /\ netCall.seq < MaxCalls
       /\ kernel' = r.kernel
       /\ netCall' = [op |-> "attach", link |-> r.link, nsPath |-> containerNsPath,
                      name |-> hostIfName, newName |-> newName,
                      addresses |-> addresses, fault |-> fault,
                      err |-> r.err, step |-> r.step, result |-> r.result,
                      seq |-> netCall.seq + 1, cause |-> r.cause,
                      failed |-> r.failed,
                      opened |-> Opened(AttachSteps, AttachOpens, r.step),
                      open |-> Opened(AttachSteps, AttachOpens, r.step)
                                  \ AttachDeferred]
       /\ trail' = TrailAfter("attach", r.link, r, kernel)

\* One call of NsDetachNetdev.
DetachCall(containerNsPath, devName, outName, fault) ==
    LET r == NsDetachNetdevRun(containerNsPath, devName, outName, kernel, fault)
    IN /\ netCall.seq < MaxCalls
       /\ kernel' = r.kernel
       /\ netCall' = [op |-> "detach", link |-> r.link, nsPath |-> containerNsPath,
                      name |-> devName, newName |-> outName,
                      addresses |-> <<>>, fault |-> fault,
                      err |-> r.err, step |-> r.step, result |-> r.result,
                      seq |-> netCall.seq + 1, cause |-> r.cause,
                      failed |-> r.failed,
                      opened |-> Opened(DetachSteps, DetachOpens, r.step),
                      open |-> Opened(DetachSteps, DetachOpens, r.step)
                                  \ DetachDeferred]
       /\ trail' = TrailAfter("detach", r.link, r, kernel)

NetdevNext ==
    \/ \E hostIfName \in IfNames, containerNsPath \in {TargetNs},
          newName \in {"", DesiredName}, addresses \in AddressLists,
          fault \in Faults(AttachSteps) :
          /\ AttachCall(hostIfName, containerNsPath, newName, addresses, fault)
          /\ UNCHANGED <<vars, restartVars, pubVars>>
    \/ \E containerNsPath \in {TargetNs}, devName \in IfNames \cup {DesiredName},
          outName \in {""} \cup IfNames, fault \in Faults(DetachSteps) :
          /\ DetachCall(containerNsPath, devName, outName, fault)
          /\ UNCHANGED <<vars, restartVars, pubVars>>

\* The relocations start with the driver and the restart loop at rest.
NetdevInit == DriverAtRest /\ RestartInit /\ NetInit /\ PublishAtRest

\* The two relocations called one after the other on the kernel's interfaces.
NetdevSpec ==
    /\ NetdevInit
    /\ [][NetdevNext]_netVars

RestartNext ==
    \/ StartSubscription /\ UNCHANGED <<vars, netVars, pubVars>>
    \/ FatalExit /\ UNCHANGED <<vars, netVars, pubVars>>
    \/ \E d \in RunTimes : SubscriptionEnds(d) /\ UNCHANGED <<vars, netVars, pubVars>>
    \/ TimerFires /\ UNCHANGED <<vars, netVars, pubVars>>
    \/ Cancel /\ UNCHANGED <<vars, netVars, pubVars>>
    \/ SelectDone /\ UNCHANGED <<vars, netVars, pubVars>>
    \/ SelectTimer /\ UNCHANGED <<vars, netVars, pubVars>>

\* The restart loop starts with the driver and the kernel at rest.
RestartSpecInit == DriverAtRest /\ RestartInit /\ NetAtRest /\ PublishAtRest

\* The restart loop; the timer of a select fires if the loop stays there, and
\* a loop that can go on does.
RestartSpec ==
    /\ RestartSpecInit
    /\ [][RestartNext]_restartVars
    /\ WF_restartVars(TimerFires)
    /\ WF_restartVars(SelectTimer)
    /\ WF_restartVars(StartSubscription)
    /\ WF_restartVars(FatalExit)

PublishNext ==
    \/ GetDevicesReturns /\ UNCHANGED <<vars, restartVars, netVars>>
    \/ GetDevicesFails /\ UNCHANGED <<vars, restartVars, netVars>>

\* getDevices starts with everything else at rest.
PublishSpecInit == DriverAtRest /\ RestartInit /\ NetAtRest /\ PublishInit

\* getDevices applied to every list of interfaces.
PublishSpec == PublishSpecInit /\ [][PublishNext]_pubVars

otherVars == <<restartVars, netVars, pubVars>>

\* The handlers touch neither the restart loop of the NRI plugin nor the
\* state of the other parts of the program.
Next ==
    \/ \E t \in Tasks : Return(t) /\ UNCHANGED otherVars
    \/ \E w \in UIDs : NoReturnPending /\ RecordAllocation(w) /\ UNCHANGED otherVars
    \/ \E t \in DraTasks, claims \in Batches :
          NoReturnPending /\ PrepareResourceClaims(t, claims) /\ UNCHANGED otherVars
    \/ \E t \in DraTasks :
          NoReturnPending /\ PrepareNextClaim(t) /\ UNCHANGED otherVars
    \/ \E t \in DraTasks, claims \in Batches :
          NoReturnPending /\ UnprepareResourceClaims(t, claims) /\ UNCHANGED otherVars
    \/ \E t \in DraTasks :
          NoReturnPending /\ UnprepareNextClaim(t) /\ UNCHANGED otherVars
    \/ \E t \in NriTasks, w \in UIDs :
          \E nss \in PodNamespaces(w) :
              NoReturnPending /\ RunCall(t, w, nss) /\ UNCHANGED otherVars
    \/ \E t \in NriTasks : NoReturnPending /\ RunLock(t) /\ UNCHANGED otherVars
    \/ \E t \in NriTasks :
          NoReturnPending /\ RunAttachReturn(t) /\ UNCHANGED otherVars
    \/ \E t \in NriTasks, w \in UIDs :
          \E nss \in PodNamespaces(w) :
              NoReturnPending /\ StopPodSandbox(t, w, nss) /\ UNCHANGED otherVars
    \/ \E t \in NriTasks :
          NoReturnPending /\ StopDetachReturn(t) /\ UNCHANGED otherVars
    \/ \E t \in NriTasks, w \in UIDs :
          NoReturnPending /\ RemovePodSandbox(t, w) /\ UNCHANGED otherVars

\* The handlers start with the restart loop and the kernel at rest.
SpecInit == Init /\ RestartInit /\ NetAtRest /\ PublishAtRest

Spec == SpecInit /\ [][Next]_vars

\* ===================================================================
\* Properties
\* ===================================================================
Granted(w) == Range(claimAlloc[w].results)
ValidAllocation(w) == claimAlloc[w].allocated /\ Len(claimAlloc[w].results) > 0

\* A RunPodSandbox call that has done its State Store read.
RunHasRead(t) ==
    /\ tasks[t].kind = "Run"
    /\ tasks[t].pc \in {"attach", "done"}
    /\ tasks[t].ns # NoNetns

\* RunPodSandbox has returned for a call issued after a successful prepare
\* that nothing deleted.
RunReturnedAfterPrepare(t) ==
    /\ RunHasRead(t) /\ tasks[t].pc = "done"
    /\ tasks[t].afterPrepare

\* C1: after a successful prepare for W that no unprepare or removed event
\* followed, a network-ready event for W with a network namespace invokes
\* NsAttachNetdev with that namespace for every device d that W's allocation
\* grants: the i-th call is for the i-th granted device, and a granted device
\* is left without a call only when the handler returned an error.
C1_AttachEveryGrantedDevice ==
    \A t \in NriTasks :
        RunReturnedAfterPrepare(t) =>
            LET granted == claimAlloc[tasks[t].uid].results
                calls == tasks[t].calls
            IN /\ Len(calls) <= Len(granted)
               /\ \A i \in 1..Len(calls) : calls[i] = granted[i]
               /\ Len(calls) = Len(granted) \/ tasks[t].err

\* C2: a RunPodSandbox call for W that was issued after PrepareResourceClaims
\* returned success for W, with no unprepare or remove of W up to its read,
\* reads the prepared artifact of that prepare, never an absent one.
C2_AttachReadsPreparedArtifact ==
    \A t \in NriTasks :
        (RunHasRead(t) /\ tasks[t].afterPrepare) =>
            /\ tasks[t].preparedData # Nil
            /\ tasks[t].preparedData = prepareDevice(claimAlloc[tasks[t].uid]).data

C2_Witness ==
    \E t \in NriTasks :
        /\ RunHasRead(t) /\ tasks[t].afterPrepare
        /\ tasks[t].preparedData = claimAlloc[tasks[t].uid].results[1]
        /\ \E d \in DraTasks : tasks[d].kind = "Unprepare" /\ tasks[d].pc = "loop"

\* C3: RunPodSandbox and StopPodSandbox call NsAttachNetdev / NsDetachNetdev
\* only when their read of the State Store found a prepared artifact; when it
\* found none, every per-device operation fails (RunPodSandbox returns the
\* error, StopPodSandbox logs one per device) and no kernel call is made.
C3_RelocationOnlyWithArtifact ==
    \A t \in NriTasks :
        /\ tasks[t].pc \in {"attach", "detach"} => tasks[t].preparedData # Nil
        /\ (tasks[t].kind \in {"Run", "Stop"} /\ tasks[t].preparedData = Nil) =>
              /\ tasks[t].calls = <<>>
              /\ (tasks[t].pc = "done" /\ tasks[t].devices # <<>>) =>
                    /\ tasks[t].kind = "Run" => tasks[t].err
                    /\ tasks[t].kind = "Stop" =>
                          tasks[t].failed = Len(tasks[t].devices)

C3_Witness ==
    \E t \in NriTasks :
        /\ RunHasRead(t) /\ tasks[t].pc = "done"
        /\ tasks[t].devices # <<>> /\ tasks[t].preparedData = Nil
        /\ tasks[t].err /\ tasks[t].calls = <<>>

\* C4: when RemovePodSandbox for W returns, the State Store holds neither an
\* allocated-devices entry nor a prepared artifact for W, whatever became of
\* W's devices, and the handler returns no error.
C4_PurgeComplete ==
    \A t \in NriTasks :
        (tasks[t].kind = "Remove" /\ tasks[t].pc = "done") =>
            /\ tasks[t].uid \notin DOMAIN PodDeviceConfig
            /\ tasks[t].uid \notin DOMAIN PreparedData
            /\ ~tasks[t].err

\* RemovePodSandbox has returned for a workload whose device is still in the
\* workload's namespace (attached, never detached).
C4_Witness ==
    \E t \in NriTasks :
        /\ tasks[t].kind = "Remove" /\ tasks[t].pc = "done"
        /\ tasks[t].uid \notin DOMAIN PodDeviceConfig
        /\ tasks[t].uid \notin DOMAIN PreparedData
        /\ \E d \in Granted(tasks[t].uid) : devNs[d] = Netns(tasks[t].uid)

\* The UID whose unprepare iteration a step of task t is, if it is one.
UnprepareStep(t) ==
    /\ tasks'[t].kind = "Unprepare"
    /\ tasks'[t].idx # tasks[t].idx
UnpreparedUID(t) == tasks'[t].claims[tasks'[t].idx - 1]

\* C5: UnprepareResourceClaims reports no error for any claim, prepared or
\* not; each unprepare of W leaves no prepared artifact for W and every other
\* entry as it was, so an unprepare of a W that has none (unprepared before,
\* or never prepared) leaves the State Store exactly as it found it.
C5_UnprepareIdempotent ==
    /\ [](\A t \in DraTasks : tasks[t].kind = "Unprepare" =>
              tasks[t].errors = {} /\ ~tasks[t].err)
    /\ [][\A t \in DraTasks : UnprepareStep(t) =>
              /\ PreparedData' = MapDelete(PreparedData, UnpreparedUID(t))
              /\ PodDeviceConfig' = PodDeviceConfig
              /\ UnpreparedUID(t) \notin DOMAIN PreparedData =>
                    PreparedData' = PreparedData]_vars

\* An unprepare call has returned without error for a workload that the call
\* before it had unprepared already, and the other workload's prepared
\* artifact is still there.
C5_Witness ==
    \E t \in DraTasks, w \in UIDs :
        /\ tasks[t].kind = "Unprepare" /\ tasks[t].pc = "done"
        /\ w \in Range(tasks[t].claims)
        /\ prepared[w] = "unprepared2"
        /\ tasks[t].errors = {}
        /\ w \notin DOMAIN PreparedData
        /\ DOMAIN PreparedData # {}

\* The UID whose prepare iteration a step of task t is, if it is one.
PrepareStep(t) ==
    /\ tasks'[t].kind = "Prepare"
    /\ tasks'[t].idx # tasks[t].idx
PreparedUID(t) == tasks'[t].claims[tasks'[t].idx - 1]

\* C6: prepare of a claim with no allocation or with zero granted devices
\* returns an error for that claim and leaves the State Store unchanged; no
\* prepared artifact is ever created for such a workload.
C6_PrepareWithoutDevicesFails ==
    /\ [](\A w \in UIDs : ~ValidAllocation(w) =>
              /\ w \notin DOMAIN PreparedData
              /\ \A t \in DraTasks :
                    (tasks[t].kind = "Prepare" /\ w \in DOMAIN tasks[t].results) =>
                        tasks[t].results[w] = "err")
    /\ [][\A t \in DraTasks :
              (PrepareStep(t) /\ ~ValidAllocation(PreparedUID(t))) =>
                  /\ PreparedData' = PreparedData
                  /\ PodDeviceConfig' = PodDeviceConfig]_vars

C6_Witness ==
    \E t \in DraTasks, w \in UIDs :
        /\ tasks[t].kind = "Prepare" /\ tasks[t].pc = "done"
        /\ claimAlloc[w].allocated /\ claimAlloc[w].results = <<>>
        /\ w \in DOMAIN tasks[t].results /\ tasks[t].results[w] = "err"
        /\ w \notin DOMAIN PreparedData

\* C7: a StopPodSandbox call for a prepared workload attempts NsDetachNetdev
\* for every device of the workload's allocation, one call per device
\* whatever the outcome of the calls before it, and returns no error.
C7_DetachEveryAllocatedDevice ==
    \A t \in NriTasks :
        (tasks[t].kind = "Stop" /\ tasks[t].pc = "done"
            /\ tasks[t].preparedData # Nil) =>
            /\ tasks[t].calls = claimAlloc[tasks[t].uid].results
            /\ ~tasks[t].err

\* C8: in one PrepareResourceClaims batch every claim gets its own result:
\* "err" exactly for the claims whose prepare fails; each claim with a valid
\* allocation is prepared and its artifact stored whatever the results of the
\* claims before it; the call itself returns no error.
C8_PrepareBatchIsolation ==
    /\ [](\A t \in DraTasks :
              (tasks[t].kind = "Prepare" /\ tasks[t].pc = "done") =>
                  /\ ~tasks[t].err
                  /\ DOMAIN tasks[t].results = Range(tasks[t].claims)
                  /\ \A w \in Range(tasks[t].claims) :
                        tasks[t].results[w] = "ok" <=> ValidAllocation(w))
    /\ [][\A t \in DraTasks :
              (PrepareStep(t) /\ ValidAllocation(PreparedUID(t))) =>
                  /\ PreparedUID(t) \in DOMAIN PreparedData'
                  /\ PreparedData'[PreparedUID(t)] =
                        claimAlloc[PreparedUID(t)].results[1]]_vars

\* A batch whose first claim failed and whose second one was prepared.
C8_Witness ==
    \E t \in DraTasks :
        /\ tasks[t].kind = "Prepare" /\ tasks[t].pc = "done"
        /\ Len(tasks[t].claims) = 2
        /\ tasks[t].results[tasks[t].claims[1]] = "err"
        /\ tasks[t].results[tasks[t].claims[2]] = "ok"
        /\ tasks[t].claims[2] \in DOMAIN PreparedData

\* C9: no task holds k.mu while NsAttachNetdev or NsDetachNetdev runs on its
\* behalf.
C9_NoLockDuringRelocation ==
    \A t \in NriTasks : tasks[t].pc \in {"attach", "detach"} => mu # t

\* C10: different workloads proceed fully in parallel: while the relocation
\* (attach or detach) for a workload A is in progress, a RunPodSandbox call
\* that waits to read the State Store for a different workload B can go on to
\* its own relocation, and a prepare or unprepare of B can go on to complete.
C10_OtherWorkloadsProceed ==
    \A t \in NriTasks :
        tasks[t].pc \in {"attach", "detach"} =>
            /\ \A u \in NriTasks :
                  (tasks[u].kind = "Run" /\ tasks[u].pc = "lock"
                      /\ tasks[u].uid # tasks[t].uid) => ENABLED RunLock(u)
            /\ \A d \in DraTasks :
                  (tasks[d].pc = "loop"
                      /\ tasks[d].claims[tasks[d].idx] # tasks[t].uid) =>
                      ENABLED (PrepareNextClaim(d) \/ UnprepareNextClaim(d))

\* C11: for one workload identity, the relocation of RunPodSandbox (attach)
\* and the relocation of StopPodSandbox (detach) are never in progress at the
\* same time.
C11_AttachDetachExclusive ==
    \A t \in NriTasks, u \in NriTasks :
        ~(/\ tasks[t].kind = "Run" /\ tasks[t].pc = "attach"
          /\ tasks[u].kind = "Stop" /\ tasks[u].pc = "detach"
          /\ tasks[t].uid = tasks[u].uid)

\* StopPodSandbox is inside NsDetachNetdev for a workload while a
\* RunPodSandbox call for the same workload waits at k.mu.Lock().
C11_Witness ==
    \E t \in NriTasks, u \in NriTasks :
        /\ tasks[t].kind = "Stop" /\ tasks[t].pc = "detach"
        /\ tasks[u].kind = "Run" /\ tasks[u].pc = "lock"
        /\ tasks[t].uid = tasks[u].uid

\* The workload whose entries a step of task t purges, if it is the step of a
\* RemovePodSandbox call.
RemoveStep(t) ==
    /\ tasks[t].kind = "idle"
    /\ tasks'[t].kind = "Remove"
RemovedUID(t) == tasks'[t].uid

\* The prepared artifact of w after a step, as the events of the step decide
\* it: a successful prepare of w creates it, each of the events in forgetting
\* deletes it, any other step leaves it as it was.
ArtifactAfterStep(w, forgetting) ==
    IF \E t \in DraTasks : PrepareStep(t) /\ PreparedUID(t) = w /\ ValidAllocation(w)
    THEN TRUE
    ELSE IF "unprepare" \in forgetting
            /\ \E t \in DraTasks : UnprepareStep(t) /\ UnpreparedUID(t) = w
    THEN FALSE
    ELSE IF "removed" \in forgetting
            /\ \E t \in NriTasks : RemoveStep(t) /\ RemovedUID(t) = w
    THEN FALSE
    ELSE w \in DOMAIN PreparedData

\* C15 as stated: the State Store holds a prepared artifact for W if and only
\* if a prepare for W has succeeded and no unprepare for W has happened since;
\* no other event creates or deletes a prepared artifact.
C15_ArtifactIffPreparedNotUnprepared ==
    [][\A w \in UIDs :
          (w \in DOMAIN PreparedData') <=> ArtifactAfterStep(w, {"unprepare"})]_vars

\* C15, amended: the State Store holds a prepared artifact for W if and only
\* if a prepare for W has succeeded and neither an unprepare nor a removed
\* event for W has happened since; the network-ready and stopping events
\* neither create nor delete a prepared artifact.
C15_ArtifactIffPreparedNotForgotten ==
    /\ [](\A w \in UIDs :
              (w \in DOMAIN PreparedData) <=> (prepared[w] \in {"stored", "returned"}))
    /\ [][\A w \in UIDs :
              (w \in DOMAIN PreparedData')
                  <=> ArtifactAfterStep(w, {"unprepare", "removed"})]_vars

\* RemovePodSandbox has returned for a workload whose prepared artifact was
\* there until this call deleted it.
C15_Witness ==
    \E t \in NriTasks :
        /\ tasks[t].kind = "Remove" /\ tasks[t].pc = "done"
        /\ tasks[t].preparedData # Nil
        /\ prepared[tasks[t].uid] = "none"
        /\ tasks[t].uid \notin DOMAIN PreparedData

\* C16: detach precedes forget: no RemovePodSandbox and no unprepare of a
\* workload takes place while a device of the workload's allocation is in the
\* workload's network namespace.
C16_DetachPrecedesForget ==
    [][\A w \in UIDs :
          (\/ \E t \in NriTasks : RemoveStep(t) /\ RemovedUID(t) = w
           \/ \E t \in DraTasks : UnprepareStep(t) /\ UnpreparedUID(t) = w)
              => \A d \in Granted(w) : devNs[d] # Netns(w)]_vars

\* The step of task t that is the entry of a RunPodSandbox call.
RunCallStep(t) ==
    /\ tasks[t].kind = "idle"
    /\ tasks'[t].kind = "Run"

\* C19: RunPodSandbox for a pod that reports no network namespace returns an
\* error without taking the lock, calls neither NsAttachNetdev nor
\* NsDetachNetdev, and leaves the State Store and the interfaces as they are.
C19_NoNamespaceIsError ==
    /\ [](\A t \in NriTasks :
              (tasks[t].kind = "Run" /\ tasks[t].ns = NoNetns) =>
                  /\ tasks[t].pc = "done" /\ tasks[t].err
                  /\ tasks[t].calls = <<>>
                  /\ mu # t)
    /\ [][\A t \in NriTasks :
              (RunCallStep(t) /\ tasks'[t].ns = NoNetns) =>
                  /\ PodDeviceConfig' = PodDeviceConfig
                  /\ PreparedData' = PreparedData
                  /\ devNs' = devNs]_vars

\* RunPodSandbox has returned the error for a workload whose allocation is
\* recorded and prepared, its device still in the host namespace.
C19_Witness ==
    \E t \in NriTasks :
        /\ tasks[t].kind = "Run" /\ tasks[t].pc = "done"
        /\ tasks[t].ns = NoNetns /\ tasks[t].err
        /\ tasks[t].uid \in DOMAIN PreparedData
        /\ tasks[t].uid \in DOMAIN PodDeviceConfig
        /\ PodDeviceConfig[tasks[t].uid] # <<>>
        /\ \A d \in Granted(tasks[t].uid) : devNs[d] = HostNs

\* C12: the subscription is never running after maxAttempts runs in a row
\* that ended within the stability threshold, and when that many have ended
\* with no shutdown signal, runNRIPlugin restarts no more and takes the fatal
\* exit (unless the shutdown signal comes first).
C12_BoundedRestart ==
    /\ [](nriPc = "run" => sinceStable < maxAttempts)
    /\ [][sinceStable >= maxAttempts => nriPc' # "run"]_restartVars
    /\ ((sinceStable = maxAttempts /\ ~ctxDone) ~> (nriPc = "fatal" \/ ctxDone))

C12_Witness ==
    /\ nriPc = "fatal"
    /\ sinceStable = maxAttempts
    /\ ~ctxDone

\* C13: the end of a subscription run longer than the stability threshold
\* sets attempt to zero, and of a run within the threshold increments it; the
\* fatal exit is taken only after maxAttempts runs in a row within the
\* threshold, whatever the number of failed runs in all.
C13_StabilityReset ==
    /\ [][(nriPc = "run" /\ nriPc' = "select") =>
              attempt' = IF elapsed' > stabilityThreshold THEN 0 ELSE attempt + 1]_restartVars
    /\ [](nriPc = "select" /\ elapsed > stabilityThreshold => attempt = 0)
    /\ [](nriPc = "fatal" => sinceStable >= maxAttempts)

\* More runs than maxAttempts have failed in all, a run longer than the
\* threshold has just ended with the counter reset, and the loop goes on.
C13_Witness ==
    /\ failures > maxAttempts
    /\ nriPc = "select"
    /\ elapsed > stabilityThreshold
    /\ attempt = 0

\* C14: once ctx is cancelled, runNRIPlugin neither enters k.nriPlugin.Run
\* again (after a subscription run that has ended) nor takes the fatal exit,
\* whatever the attempt counter.
C14_ShutdownHonoured ==
    [][(ctxDone /\ elapsed # 0) =>
          (nriPc' = nriPc \/ nriPc' \notin {"run", "fatal"})]_restartVars


\* The last call was a NsAttachNetdev that returned a result and no error.
AttachSucceeded == netCall.op = "attach" /\ ~netCall.err

\* The name NsAttachNetdev was asked to give the interface in the namespace.
WantedName == IF netCall.newName # "" THEN netCall.newName ELSE netCall.name

\* C18: when NsAttachNetdev returns success, the interface it looked up is no
\* longer in the host namespace, it is in the target namespace, up, under the
\* desired name (its host name when none was given), it has every address of
\* the list, and the result carries that name and the IPs of the list in order.
C18_AttachPostcondition ==
    AttachSucceeded =>
        LET l == netCall.link
        IN /\ kernel[l].ns # HostNs
           /\ LinkByName(kernel, HostNs, netCall.name) # l
           /\ kernel[l].ns = netCall.nsPath
           /\ kernel[l].up
           /\ kernel[l].name = WantedName
           /\ \A i \in 1..Len(netCall.addresses) :
                 netCall.addresses[i] \in Range(kernel[l].addrs)
           /\ netCall.result.InterfaceName = WantedName
           /\ Len(netCall.result.IPs) = Len(netCall.addresses)
           /\ \A i \in 1..Len(netCall.addresses) :
                 netCall.result.IPs[i] = netCall.addresses[i].IP

\* A successful attach with a desired name and two different addresses.
C18_Witness ==
    /\ AttachSucceeded
    /\ netCall.newName = DesiredName
    /\ Len(netCall.addresses) = 2
    /\ netCall.addresses[1] # netCall.addresses[2]
    /\ kernel[netCall.link].name = DesiredName
    /\ Len(kernel[netCall.link].addrs) = 2

\* C17: an interface that was up in the host namespace, was attached with
\* success and then detached with success is in the host namespace, up, under
\* the host name it had, and not in the target namespace.
C17_RoundTripRestoresDevice ==
    \A l \in LinkIds :
        trail[l].stage = "returned" =>
            /\ kernel[l].ns = HostNs
            /\ kernel[l].up
            /\ kernel[l].name = trail[l].name
            /\ kernel[l].ns # trail[l].ns

\* The interfaces the publishing filter lets through.
Publishable(attrs) ==
    /\ FlagLoopback \notin attrs.Flags
    /\ FlagUp \in attrs.Flags
    /\ ~HasPrefix(attrs.Name, veth)
    /\ ~HasPrefix(attrs.Name, docker)
    /\ ~HasPrefix(attrs.Name, cni)

\* getDevices has returned the devices of the enumerated interfaces.
Discovered == discovered.returned /\ ~discovered.err

\* C20: the devices getDevices returns are exactly the enumerated interfaces
\* that are not loopback, are up and whose name starts with none of veth,
\* docker, cni: none of these is dropped, none of the others is published.
C20_PublishingFilter ==
    Discovered =>
        {d.Name : d \in Range(discovered.devices)}
            = {attrs.Name : attrs \in {a \in Range(hostLinks) : Publishable(a)}}

\* getDevices returned one device for two interfaces, the other being down.
C20_Witness ==
    /\ Discovered
    /\ Len(hostLinks) = 2
    /\ Len(discovered.devices) = 1
    /\ \E i \in 1..2 :
          /\ FlagUp \notin hostLinks[i].Flags
          /\ FlagLoopback \notin hostLinks[i].Flags
          /\ ~HasPrefix(hostLinks[i].Name, veth)

\* The last call was a NsDetachNetdev that returned no error.
DetachSucceeded == netCall.op = "detach" /\ ~netCall.err

\* C21: a successful NsDetachNetdev leaves the interface in the host namespace
\* under its alias when it has one, and under outName only when it has none.
C21_DetachPrefersAlias ==
    DetachSucceeded =>
        LET l == netCall.link
        IN /\ kernel[l].ns = HostNs
           /\ kernel[l].alias # "" => kernel[l].name = kernel[l].alias
           /\ (kernel[l].alias = "" /\ netCall.newName # "")
                 => kernel[l].name = netCall.newName

\* The last call was a NsAttachNetdev that returned from a failed AddrAdd.
AddrAddFailed == netCall.op = "attach" /\ netCall.step = "AddrAdd"

\* C22: when the AddrAdd of the i-th address fails, NsAttachNetdev returns an
\* error that names that address; the interface has the addresses before the
\* i-th and no other, and it is in the target namespace, not up.
C22_AddressFailureAborts ==
    AddrAddFailed =>
        LET l == netCall.link
            i == netCall.failed.at
        IN /\ netCall.err
           /\ i \in 1..Len(netCall.addresses)
           /\ netCall.failed.IP = netCall.addresses[i].IP
           /\ kernel[l].addrs = SubSeq(netCall.addresses, 1, i - 1)
           /\ kernel[l].ns = netCall.nsPath
           /\ ~kernel[l].up

\* The second address of a list of two failed, the first stays assigned.
C22_Witness ==
    /\ AddrAddFailed
    /\ netCall.failed.at = 2
    /\ Len(netCall.addresses) = 2
    /\ kernel[netCall.link].addrs = <<netCall.addresses[1]>>

\* C23: when NsAttachNetdev or NsDetachNetdev has returned, on whatever path,
\* none of the handles it opened is open.
C23_HandlesReleased == netCall.open = {}

\* NsDetachNetdev failed at its last step with its four handles opened.
C23_Witness ==
    /\ netCall.op = "detach"
    /\ netCall.err
    /\ netCall.step = "LinkSetUp"
    /\ netCall.opened = {"containerNs", "nhNs", "rootNs", "s"}

\* C24: neither function returns the dump-interrupted condition as its error.
C24_DumpInterruptedAbsorbed == netCall.cause # "ErrDumpInterrupted"

\* C25: a NsAttachNetdev of the same host interface into the same namespace,
\* right after one that succeeded, leaves every interface as it was.
C25_ReplayedAttachChangesNothing ==
    [][(/\ AttachSucceeded
        /\ netCall'.op = "attach"
        /\ netCall'.name = netCall.name
        /\ netCall'.nsPath = netCall.nsPath) => kernel' = kernel]_netVars

\* The attach of an interface was repeated after it had succeeded.
C25_Witness ==
    /\ netCall.op = "attach"
    /\ netCall.seq = 2
    /\ netCall.err
    /\ netCall.link = NoLink
    /\ \E l \in LinkIds :
          /\ trail[l].stage = "attached"
          /\ trail[l].name = netCall.name
          /\ trail[l].ns = netCall.nsPath
          /\ kernel[l].ns = netCall.nsPath
          /\ kernel[l].up

\* NsAttachNetdev returned an error after LinkSetDown and before the move.
AttachFailedBeforeMove ==
    /\ netCall.op = "attach"
    /\ netCall.err
    /\ netCall.step \in {"GetFromPath", "GetNetlinkSocketAt", "Execute"}

\* C26: when NsAttachNetdev fails at the namespace lookup, the socket or the
\* modify request, the interface is in the host namespace under its name, not
\* up; on no failure after LinkSetDown is the interface up.
C26_DisableNotRolledBack ==
    /\ AttachFailedBeforeMove =>
          LET l == netCall.link
          IN /\ kernel[l].ns = HostNs
             /\ kernel[l].name = netCall.name
             /\ ~kernel[l].up
    /\ (/\ netCall.op = "attach"
        /\ netCall.err
        /\ netCall.step \notin {"LinkByName", "LinkSetDown"})
          => ~kernel[netCall.link].up

\* The modify request of an attach was rejected.
C26_Witness ==
    /\ AttachFailedBeforeMove
    /\ netCall.step = "Execute"
    /\ netCall.seq = 1
    /\ ~kernel[netCall.link].up

\* The devices of the attach calls of t before its last one are in the
\* workload's namespace.
EarlierAttached(t, ns) ==
    \A j \in 1..(Len(tasks[t].calls) - 1) : ns[tasks[t].calls[j]] = tasks[t].ns

\* C27: RunPodSandbox reaches the attach of a device only when the attaches
\* before it succeeded; the attach that fails ends the handler with the error,
\* with no further attach and the earlier devices still in the workload's
\* namespace; StopPodSandbox goes through every device and returns no error.
C27_AttachFailFast ==
    /\ [](\A t \in NriTasks :
             /\ (tasks[t].kind = "Run" /\ tasks[t].pc = "attach")
                   => EarlierAttached(t, devNs)
             /\ (tasks[t].kind = "Stop" /\ tasks[t].pc = "done")
                   => /\ tasks[t].idx = Len(tasks[t].devices) + 1
                      /\ ~tasks[t].err)
    /\ [][\A t \in NriTasks :
             (/\ tasks[t].kind = "Run" /\ tasks[t].pc = "attach"
              /\ tasks'[t].pc = "done" /\ tasks'[t].err)
                => /\ tasks'[t].calls = tasks[t].calls
                   /\ tasks'[t].idx = tasks[t].idx
                   /\ EarlierAttached(t, devNs')]_vars

\* RunPodSandbox returned the error of the first of two devices: the second
\* was not attempted.
C27_Witness ==
    \E t \in NriTasks :
        /\ tasks[t].kind = "Run" /\ tasks[t].pc = "done" /\ tasks[t].err
        /\ Len(tasks[t].devices) = 2
        /\ Len(tasks[t].calls) = 1

====
